---- MODULE Spec2Model ----
(***************************************************************************)
(* The blocking-I/O-to-async bridge of async-std's standard streams        *)
(* (io/stdout.rs, io/stderr.rs, io/stdin.rs).                              *)
(*                                                                         *)
(* One bridge instance is modelled.  `kind` says which one: "out" is       *)
(* Stdout or Stderr (the two files are the same code up to names), "in"    *)
(* is Stdin.  A poll call runs under the bridge's mutex; one step of the   *)
(* model is one iteration of the poll's `loop`, so a worker thread can     *)
(* finish a dispatched closure between two iterations of the same poll,    *)
(* as it can in the program.  The worker running a closure is one step:    *)
(* the closure owns `Inner` alone while it runs.                           *)
(*                                                                         *)
(* The Deadline Combinator (future/timeout.rs, io/timeout.rs) is a second  *)
(* machine with its own specification, TimeoutSpec: one combinator, its    *)
(* wrapped future and its timer.  Each specification leaves the other      *)
(* machine's variables at rest.  TaskId::generate (task/task_id.rs) is a    *)
(* third one, TaskIdSpec: threads drawing ids from the one static counter, *)
(* whose 64 bits are scaled down to Bits.  InstancesSpec is the output     *)
(* bridge once more, as many instances as coreout() is called, each with   *)
(* the one user that made it (as _print does).                             *)
(***************************************************************************)
EXTENDS Integers, Sequences, FiniteSets, TLC

(***************************************************************************)
(* Bounds of the model.                                                    *)
(***************************************************************************)
NCallers == 2
MaxCalls == 3
MaxTasks == 3
MaxLen == 2
MaxTime == 3
MaxDur == 2
MaxRepolls == 2
NThreads == 2
Bits == 4
MaxInsts == 2

Callers == 1..NCallers
Lens == 1..MaxLen

\* A byte exposed by `set_len` beyond the initialized part: it is marked, not
\* given a value, and the marker shows wherever such a byte would be read.
Uninit == {-1}

SeqsOver(S, n) == [1..n -> S]

(***************************************************************************)
(* Data of the program.                                                    *)
(***************************************************************************)
\* Option<Operation> = None
NoOp == [kind |-> "None", ok |-> TRUE, n |-> 0, tid |-> 0]

\* Some(Operation::<kind>(Ok(n))) / Some(Operation::<kind>(Err(e))).  The error
\* payload is named after the blocking call that produced it (tid).
OpOk(k, n, tid) == [kind |-> k, ok |-> TRUE, n |-> n, tid |-> tid]
OpErr(k, tid) == [kind |-> k, ok |-> FALSE, n |-> 0, tid |-> tid]

\* Inner { stream handle, line, buf, last_op } as the constructor builds it.
\* The stream handle is the process's stream: `out` below is its output.
NewInner == [buf |-> <<>>, line |-> <<>>, last_op |-> NoOp]

\* State::Idle(opt): an Option is a sequence of length 0 (None) or 1 (Some).
Idle(opt) == [tag |-> "Idle", opt |-> opt]

\* State::Busy(handle)
Busy(tid) == [tag |-> "Busy", task |-> tid]

\* The operations each bridge offers.
Ops(k) == IF k = "out" THEN {"Write", "Flush"} ELSE {"Read", "ReadLine"}

\* The bytes a logical write call passes: every byte names the call.
WriteData(id, len) == [i \in 1..len |-> id]

VARIABLES
    kind,      \* which bridge this is: "out" (Stdout, Stderr) or "in" (Stdin)
    state,     \* the State behind the mutex
    tasks,     \* closures handed to spawn_blocking whose State was not adopted yet
    lock,      \* the caller whose poll holds the mutex, 0 when it is free
    panic,     \* "none", or where a poll panicked while holding the mutex (poisoned)
    out,       \* the blocking writes the output stream has observed, in order
    call,      \* call[c]: the logical call caller c is in (id 0 when in none)
    calls,     \* calls[id]: what became of each logical call issued so far
    rbuf,      \* rbuf[c]: the byte slice caller c passes to poll_read
    sbuf,      \* sbuf[c]: the String caller c passes to read_line
    last_ret,  \* what the most recent poll call returned
    hist,      \* hist[tid]: the blocking call tid and what became of its result
    track      \* whether hist and out are kept: they are bookkeeping, no program state

VARIABLES
    comb,      \* which Deadline Combinator is polled, and how it was obtained
    future,    \* the wrapped future: when it is ready, with what, and if polled since
    delay,     \* the timer: its duration and whether it has fired
    now,       \* the time
    tdone,     \* "no", or what the combinator's first Ready result came from
    tret,      \* what the most recent poll of the combinator did and returned
    late,      \* polls of the wrapped future made after a timeout was reported
    repolls    \* polls of the combinator made after it reported Ready

tvars == <<comb, future, delay, now, tdone, tret, late, repolls>>

VARIABLES
    COUNTER,   \* the static AtomicU64 of TaskId::generate
    gen,       \* gen[t]: where thread t is in generate, and the id it fetched
    ids,       \* the TaskIds generate has returned, in the order of the returns
    aborted,   \* process::abort() was called
    wrapped    \* the counter has been incremented past its greatest value

gvars == <<COUNTER, gen, ids, aborted, wrapped>>

VARIABLES
    insts      \* insts[i]: the i-th Stdout made by coreout(): its mutex and State,
               \* the closures it dispatched, and its user's write call

\* coreout() was not called.
NoInstances == insts = <<>>

Threads == 1..NThreads

\* static COUNTER: AtomicU64 = AtomicU64::new(1), and no thread in generate.
TaskIdFresh ==
    /\ COUNTER = 1
    /\ gen = [t \in Threads |-> [pc |-> "idle", id |-> 0]]
    /\ ids = <<>>
    /\ aborted = FALSE
    /\ wrapped = FALSE

bvars == <<kind, state, tasks, lock, panic, out, call, calls, rbuf, sbuf,
           last_ret, hist, track>>

vars == <<kind, state, tasks, lock, panic, out, call, calls, rbuf, sbuf,
          last_ret, hist, track, tvars, gvars, insts>>

\* Result::Ok(v), Result::Err(e)
Ok(v) == [tag |-> "Ok", p |-> v]

Err(e) == [tag |-> "Err", p |-> e]

\* No poll of the combinator yet.
NoPoll == [res |-> "None", val |-> Ok("none"), from |-> "none",
           futp |-> "NotPolled", timerp |-> "NotPolled", first |-> FALSE, at |-> 0,
           fired |-> FALSE]

\* No Deadline Combinator has been made.
NoDeadline ==
    /\ comb = "none"
    /\ future = [at |-> 0, out |-> Ok("none"), taken |-> FALSE]
    /\ delay = [dur |-> 0, fired |-> FALSE]
    /\ now = 0
    /\ tdone = "no"
    /\ tret = NoPoll
    /\ late = 0
    /\ repolls = 0

NoCall == [id |-> 0, op |-> "None", len |-> 0]

NoRet == [c |-> 0, call |-> NoCall, res |-> "None", n |-> 0, tid |-> 0]

\* coreout() / coreerr() / corein(): Idle(Some(Inner { buf: empty, last_op: None }))
Init ==
    /\ kind \in {"out", "in"}
    /\ state = Idle(<<NewInner>>)
    /\ tasks = {}
    /\ lock = 0
    /\ panic = "none"
    /\ out = <<>>
    /\ call = [c \in Callers |-> NoCall]
    /\ calls = <<>>
    /\ rbuf = [c \in Callers |-> <<>>]
    /\ sbuf = [c \in Callers |-> <<>>]
    /\ last_ret = NoRet
    /\ hist = <<>>
    /\ track = TRUE
    /\ NoDeadline
    /\ TaskIdFresh
    /\ NoInstances


(***************************************************************************)
(* Pieces of the poll functions.                                           *)
(***************************************************************************)
\* Bug: the recorded result is looked at and left in place.
peek(inner) == inner

\* inner.last_op.take(): the slot is left None whatever it held.
take(inner) == [inner EXCEPT !.last_op = NoOp]

\* Bug: no recorded count is accepted.
FitsNever(n, len) == FALSE

\* Bug: the recorded count is returned whatever the buffer of this call.
FitsAlways(n, len) == TRUE

\* `if n <= buf.len()`: the recorded count fits the buffer of this very call.
Fits(n, len) == n <= len

\* reserve + unsafe set_len(len): a longer buffer exposes bytes nobody wrote.
JunkFor(b, len) == SeqsOver(Uninit, IF len > Len(b) THEN len - Len(b) ELSE 0)

\* Bug: the buffer is grown and never shrunk.
grow_only(b, len, junk) == IF len <= Len(b) THEN b ELSE b \o junk

set_len(b, len, junk) == IF len <= Len(b) THEN SubSeq(b, 1, len) ELSE b \o junk

\* Bug: nothing is copied.
copy_nothing(dst, src, n) == dst

\* dst[..n].copy_from_slice(&src[..n]), for n within both slices.
copy_from_slice(dst, src, n) ==
    [i \in 1..Len(dst) |-> IF i <= n THEN src[i] ELSE dst[i]]

\* buf.push_str(&inner.line)
push_str(s, line) == s \o line

\* Bug: the closure is run where it is made, on the polling thread.
run_inline(tid, op, inner) ==
    [id |-> tid, op |-> op, done |-> TRUE, cap |-> <<>>,
     ret |-> <<[tag |-> "Idle",
                opt |-> <<[inner EXCEPT !.last_op =
                             [kind |-> op, ok |-> TRUE, n |-> 0, tid |-> tid]]>>]>>]

\* spawn_blocking(move || ...): the closure owns the Inner it captured.
spawn_blocking(tid, op, inner) ==
    [id |-> tid, op |-> op, done |-> FALSE, cap |-> <<inner>>, ret |-> <<>>]

\* Bug: the closure gets a copy of Inner and the slot is left as it was.
StateIdleSomeAfterDispatch(tid, inner) == Idle(<<inner>>)

\* Bug: the handle is not stored; the slot stays as opt.take() left it.
StateIdleNoneAfterDispatch(tid, inner) == Idle(<<>>)

\* `*state = State::Busy(spawn_blocking(..))`: the slot, emptied by opt.take(),
\* is overwritten by the handle.
StateAfterDispatch(tid, inner) == Busy(tid)

\* Bug: the closure keeps Inner and returns an empty slot.
ClosureReturnsNone(inner) == Idle(<<>>)

\* The closure's last expression: State::Idle(Some(inner)).
ClosureReturn(inner) == Idle(<<inner>>)

\* What became of a recorded result: ghost bookkeeping, no program state.
Fate(op, f, to) ==
    IF op.kind = "None" \/ ~track THEN hist
    ELSE [hist EXCEPT ![op.tid].fate = f, ![op.tid].to = to]

NewHist(h, id, op) ==
    IF ~track THEN h
    ELSE Append(h, [by |-> id, kind |-> op, ok |-> TRUE, n |-> 0, fate |-> "running",
                    to |-> 0, data |-> <<>>])

\* The history, where it is kept, has room for one more blocking call.
Room == track => Len(hist) < MaxTasks

\* The name of the next blocking call: its place in the history.  Without a
\* history every closure is named 1 (there is never more than one).
NewTid == IF track THEN Len(hist) + 1 ELSE 1

(***************************************************************************)
(* The callers.  A future does nothing until it is first polled, so a      *)
(* logical call is issued by its first poll.                               *)
(***************************************************************************)
\* A read's slice before the first poll: the caller's own bytes (zeros).
Zeros(len) == [i \in 1..len |-> 0]

\* Caller c may call the poll function of `op` with a buffer of `len` bytes:
\* to go on with its pending logical call (the same operation, the same
\* buffer) or to issue a new one.  `let state = &mut *self.0.lock().unwrap();`
\* at the head of the function waits for the mutex; with lock = c the caller
\* is inside the function's loop.  The callers are interchangeable: the one
\* that issues the first call is named 1.
InPoll(c, op, len) ==
    /\ op \in Ops(kind)
    /\ len \in (IF op \in {"Write", "Read"} THEN Lens ELSE {0})
    /\ IF call[c] = NoCall
       THEN lock = 0 /\ Len(calls) < MaxCalls /\ (calls = <<>> => c = 1)
       ELSE lock \in {0, c} /\ call[c].op = op /\ call[c].len = len

\* The logical call the poll belongs to.
Cur(c, op, len) ==
    IF call[c] = NoCall THEN [id |-> Len(calls) + 1, op |-> op, len |-> len]
    ELSE call[c]

\* calls, with the call of this poll in it.  pre: the calls that had ended
\* when this one was issued.
Issued(c) ==
    IF call[c] = NoCall
    THEN Append(calls, [status |-> "live",
                        pre |-> {k \in 1..Len(calls) : calls[k].status # "live"}])
    ELSE calls

\* The caller drops the future of its logical call between two polls.
DropCall(c) ==
    /\ call[c] # NoCall
    /\ lock # c
    /\ call' = [call EXCEPT ![c] = NoCall]
    /\ calls' = [calls EXCEPT ![call[c].id].status = "dropped"]
    /\ UNCHANGED <<insts, gvars, tvars, track, kind, state, tasks, lock, panic, out, rbuf, sbuf, last_ret, hist>>

(***************************************************************************)
(* How one iteration of a poll's loop ends.                                *)
(***************************************************************************)
\* Bug: the guard is leaked (mem::forget), the mutex stays with the caller.
KeepLock(c) == c

\* The MutexGuard bound by `let state = &mut *self.0.lock().unwrap();` goes out
\* of scope when the function is left: the mutex is free.
Unlock(c) == 0

\* `return Poll::Ready(..)`, `res?` and `ready!`: the guard is dropped, the
\* mutex released.  A Ready result ends the logical call.
Return(c, cl, res, n, tid) ==
    /\ lock' = Unlock(c)
    /\ panic' = panic
    /\ last_ret' = [c |-> c, call |-> cl, res |-> res, n |-> n, tid |-> tid]
    /\ IF res = "Pending"
       THEN /\ call' = [call EXCEPT ![c] = cl]
            /\ calls' = Issued(c)
       ELSE /\ call' = [call EXCEPT ![c] = NoCall]
            /\ calls' = [Issued(c) EXCEPT ![cl.id].status = "done"]

\* The loop goes round again, the mutex held.
Continue(c, cl) ==
    /\ lock' = c
    /\ call' = [call EXCEPT ![c] = cl]
    /\ calls' = Issued(c)
    /\ UNCHANGED <<panic, last_ret>>

\* A panic inside the poll: unwinding drops the guard, which poisons the mutex.
Panic(c, cl, where) ==
    /\ lock' = Unlock(c)
    /\ panic' = where
    /\ last_ret' = last_ret
    /\ call' = [call EXCEPT ![c] = NoCall]
    /\ calls' = [Issued(c) EXCEPT ![cl.id].status = "panicked"]

\* Bug: a mutex that does not poison (lock() succeeds after a panic).
NeverPoisoned(c) == FALSE

\* lock() of a poisoned mutex is an Err, which the unwrap turns into a panic.
Poisoned(c) == lock = 0 /\ panic # "none"

\* Bug: the State a finished closure yields is stored and the poll returns
\* Pending instead of going round the loop.
poll_task_yields(c, cl) ==
    LET t == CHOOSE x \in tasks : x.id = state.task
    IN  /\ Return(c, cl, "Pending", 0, 0)
        /\ IF t.done
           THEN state' = t.ret[1] /\ tasks' = tasks \ {t}
           ELSE UNCHANGED <<state, tasks>>

\* Bug: a handle that is not ready is dropped with the closure it stands for.
poll_task_forgets(c, cl) ==
    LET t == CHOOSE x \in tasks : x.id = state.task
    IN  IF t.done
        THEN /\ state' = t.ret[1]
             /\ tasks' = tasks \ {t}
             /\ Continue(c, cl)
        ELSE /\ Return(c, cl, "Pending", 0, 0)
             /\ state' = Idle(<<>>)
             /\ tasks' = tasks \ {t}

\* State::Busy(task) => *state = ready!(Pin::new(task).poll(cx)).  The poll of
\* the handle runs code the bridge does not own (it clones the waker the
\* caller passed in cx), which may panic: the State stays Busy.
poll_task(c, cl) ==
    LET t == CHOOSE x \in tasks : x.id = state.task
    IN  \/ IF t.done
           THEN /\ state' = t.ret[1]
                /\ tasks' = tasks \ {t}
                /\ Continue(c, cl)
           ELSE /\ Return(c, cl, "Pending", 0, 0)
                /\ UNCHANGED <<state, tasks>>
        \/ /\ Panic(c, cl, "handle")
           /\ UNCHANGED <<state, tasks>>

(***************************************************************************)
(* The polls: each action is one iteration of the function's loop.         *)
(***************************************************************************)
\* Stdout::poll_write / Stderr::poll_write, called with a buffer of len bytes
poll_write(c, len) ==
    /\ InPoll(c, "Write", len)
    /\ UNCHANGED <<insts, gvars, tvars, track, kind, out, rbuf, sbuf>>
    /\ LET cl  == Cur(c, "Write", len)
           buf == WriteData(cl.id, len)
       IN  IF Poisoned(c)
           THEN Panic(c, cl, panic) /\ UNCHANGED <<state, tasks, hist>>
           ELSE IF state.tag = "Busy"
           THEN poll_task(c, cl) /\ UNCHANGED hist
           ELSE IF state.opt = <<>>
           THEN Panic(c, cl, "unwrap") /\ UNCHANGED <<state, tasks, hist>>
           ELSE LET op    == state.opt[1].last_op
                    inner == take(state.opt[1])
                IN  IF op.kind = "Write"
                    THEN /\ state' = Idle(<<inner>>)
                         /\ tasks' = tasks
                         /\ IF ~op.ok
                            THEN /\ Return(c, cl, "Err", 0, op.tid)
                                 /\ hist' = Fate(op, "returned", cl.id)
                            ELSE IF Fits(op.n, Len(buf))
                            THEN /\ Return(c, cl, "Ok", op.n, op.tid)
                                 /\ hist' = Fate(op, "returned", cl.id)
                            ELSE /\ Continue(c, cl)
                                 /\ hist' = Fate(op, "discarded", cl.id)
                    ELSE /\ Room
                         /\ \E junk \in JunkFor(inner.buf, Len(buf)) :
                              LET tid == NewTid
                                  b   == copy_from_slice(set_len(inner.buf, Len(buf), junk),
                                                         buf, Len(buf))
                                  cap == [inner EXCEPT !.buf = b]
                              IN  /\ state' = StateAfterDispatch(tid, cap)
                                  /\ tasks' = tasks \cup {spawn_blocking(tid, "Write", cap)}
                         /\ hist' = NewHist(Fate(op, "discarded", cl.id), cl.id, "Write")
                         /\ Continue(c, cl)

\* Stdout::poll_flush / Stderr::poll_flush (poll_close calls it)
poll_flush(c) ==
    /\ InPoll(c, "Flush", 0)
    /\ UNCHANGED <<insts, gvars, tvars, track, kind, out, rbuf, sbuf>>
    /\ LET cl == Cur(c, "Flush", 0)
       IN  IF Poisoned(c)
           THEN Panic(c, cl, panic) /\ UNCHANGED <<state, tasks, hist>>
           ELSE IF state.tag = "Busy"
           THEN poll_task(c, cl) /\ UNCHANGED hist
           ELSE IF state.opt = <<>>
           THEN Panic(c, cl, "unwrap") /\ UNCHANGED <<state, tasks, hist>>
           ELSE LET op    == state.opt[1].last_op
                    inner == take(state.opt[1])
                IN  IF op.kind = "Flush"
                    THEN /\ state' = Idle(<<inner>>)
                         /\ tasks' = tasks
                         /\ Return(c, cl, IF op.ok THEN "Ok" ELSE "Err", 0, op.tid)
                         /\ hist' = Fate(op, "returned", cl.id)
                    ELSE /\ Room
                         /\ LET tid == NewTid
                            IN  /\ state' = StateAfterDispatch(tid, inner)
                                /\ tasks' = tasks \cup {spawn_blocking(tid, "Flush", inner)}
                         /\ hist' = NewHist(Fate(op, "discarded", cl.id), cl.id, "Flush")
                         /\ Continue(c, cl)

\* Stdin::poll_read, called with a slice of len bytes
poll_read(c, len) ==
    /\ InPoll(c, "Read", len)
    /\ UNCHANGED <<insts, gvars, tvars, track, kind, out, sbuf>>
    /\ LET cl   == Cur(c, "Read", len)
           buf  == IF call[c] = NoCall THEN Zeros(len) ELSE rbuf[c]
           Same == rbuf' = [rbuf EXCEPT ![c] = buf]
       IN  IF Poisoned(c)
           THEN Panic(c, cl, panic) /\ Same /\ UNCHANGED <<state, tasks, hist>>
           ELSE IF state.tag = "Busy"
           THEN poll_task(c, cl) /\ Same /\ UNCHANGED hist
           ELSE IF state.opt = <<>>
           THEN Panic(c, cl, "unwrap") /\ Same /\ UNCHANGED <<state, tasks, hist>>
           ELSE LET op    == state.opt[1].last_op
                    inner == take(state.opt[1])
                IN  IF op.kind = "Read"
                    THEN /\ state' = Idle(<<inner>>)
                         /\ tasks' = tasks
                         /\ IF ~op.ok
                            THEN /\ Return(c, cl, "Err", 0, op.tid)
                                 /\ hist' = Fate(op, "returned", cl.id)
                                 /\ Same
                            ELSE IF Fits(op.n, Len(buf))
                            THEN IF op.n > Len(inner.buf)
                                 THEN /\ Panic(c, cl, "slice")
                                      /\ hist' = Fate(op, "discarded", cl.id)
                                      /\ Same
                                 ELSE /\ rbuf' = [rbuf EXCEPT ![c] =
                                                    copy_from_slice(buf, inner.buf, op.n)]
                                      /\ Return(c, cl, "Ok", op.n, op.tid)
                                      /\ hist' = Fate(op, "returned", cl.id)
                            ELSE /\ Continue(c, cl)
                                 /\ hist' = Fate(op, "discarded", cl.id)
                                 /\ Same
                    ELSE /\ Room
                         /\ \E junk \in JunkFor(inner.buf, Len(buf)) :
                              LET tid == NewTid
                                  cap == [inner EXCEPT !.buf = set_len(inner.buf, Len(buf), junk)]
                              IN  /\ state' = StateAfterDispatch(tid, cap)
                                  /\ tasks' = tasks \cup {spawn_blocking(tid, "Read", cap)}
                         /\ hist' = NewHist(Fate(op, "discarded", cl.id), cl.id, "Read")
                         /\ Same
                         /\ Continue(c, cl)

\* Bug: the line is appended before `res?` looks at the outcome.
read_line_push_first(c) ==
    /\ InPoll(c, "ReadLine", 0)
    /\ UNCHANGED <<insts, gvars, tvars, track, kind, out, rbuf>>
    /\ LET cl == Cur(c, "ReadLine", 0)
       IN  IF Poisoned(c)
           THEN Panic(c, cl, panic) /\ UNCHANGED <<state, tasks, hist, sbuf>>
           ELSE IF state.tag = "Busy"
           THEN poll_task(c, cl) /\ UNCHANGED <<hist, sbuf>>
           ELSE IF state.opt = <<>>
           THEN Panic(c, cl, "unwrap") /\ UNCHANGED <<state, tasks, hist, sbuf>>
           ELSE LET op    == state.opt[1].last_op
                    inner == take(state.opt[1])
                IN  IF op.kind = "ReadLine"
                    THEN /\ state' = Idle(<<inner>>)
                         /\ tasks' = tasks
                         /\ hist' = Fate(op, "returned", cl.id)
                         /\ sbuf' = [sbuf EXCEPT ![c] = push_str(sbuf[c], inner.line)]
                         /\ IF ~op.ok
                            THEN Return(c, cl, "Err", 0, op.tid)
                            ELSE Return(c, cl, "Ok", op.n, op.tid)
                    ELSE /\ Room
                         /\ LET tid == NewTid
                            IN  /\ state' = StateAfterDispatch(tid, inner)
                                /\ tasks' = tasks \cup {spawn_blocking(tid, "ReadLine", inner)}
                         /\ hist' = NewHist(Fate(op, "discarded", cl.id), cl.id, "ReadLine")
                         /\ UNCHANGED sbuf
                         /\ Continue(c, cl)

\* Stdin::read_line (the closure given to poll_fn), called with the String
\* sbuf[c]
read_line(c) ==
    /\ InPoll(c, "ReadLine", 0)
    /\ UNCHANGED <<insts, gvars, tvars, track, kind, out, rbuf>>
    /\ LET cl == Cur(c, "ReadLine", 0)
       IN  IF Poisoned(c)
           THEN Panic(c, cl, panic) /\ UNCHANGED <<state, tasks, hist, sbuf>>
           ELSE IF state.tag = "Busy"
           THEN poll_task(c, cl) /\ UNCHANGED <<hist, sbuf>>
           ELSE IF state.opt = <<>>
           THEN Panic(c, cl, "unwrap") /\ UNCHANGED <<state, tasks, hist, sbuf>>
           ELSE LET op    == state.opt[1].last_op
                    inner == take(state.opt[1])
                IN  IF op.kind = "ReadLine"
                    THEN /\ state' = Idle(<<inner>>)
                         /\ tasks' = tasks
                         /\ hist' = Fate(op, "returned", cl.id)
                         /\ IF ~op.ok
                            THEN /\ Return(c, cl, "Err", 0, op.tid)
                                 /\ UNCHANGED sbuf
                            ELSE /\ sbuf' = [sbuf EXCEPT ![c] = push_str(sbuf[c], inner.line)]
                                 /\ Return(c, cl, "Ok", op.n, op.tid)
                    ELSE /\ Room
                         /\ LET tid == NewTid
                            IN  /\ state' = StateAfterDispatch(tid, inner)
                                /\ tasks' = tasks \cup {spawn_blocking(tid, "ReadLine", inner)}
                         /\ hist' = NewHist(Fate(op, "discarded", cl.id), cl.id, "ReadLine")
                         /\ UNCHANGED sbuf
                         /\ Continue(c, cl)

(***************************************************************************)
(* The worker pool: a dispatched closure runs to its end in one step.      *)
(***************************************************************************)
\* The n bytes of its input that the stream hands to blocking call tid: the
\* stream hands out every byte once, so each byte names the call that got it.
Tokens(tid, n) == [i \in 1..n |-> tid]

\* Bug: the accumulator keeps the line of the dispatch before.
no_clear(line) == line

\* inner.line.clear()
clear(line) == <<>>

\* Bug: the closure returns Inner without recording the outcome.
KeepLastOp(inner, res) == inner

\* inner.last_op = Some(Operation::..(res))
SetLastOp(inner, res) == [inner EXCEPT !.last_op = res]

\* The closure has returned: its JoinHandle now yields the State.
Finished(t, inner) ==
    [t EXCEPT !.done = TRUE, !.cap = <<>>, !.ret = <<ClosureReturn(inner)>>]

Recorded(t, res, data) ==
    IF ~track THEN hist
    ELSE [hist EXCEPT ![t.id].fate = "done", ![t.id].ok = res.ok, ![t.id].n = res.n,
                      ![t.id].data = data]

\* The closure of poll_write: the blocking write takes the first r bytes of
\* inner.buf, or fails (r = -1) and takes none.
run_write(t) ==
    /\ t \in tasks /\ ~t.done /\ t.op = "Write"
    /\ \E r \in -1..Len(t.cap[1].buf) :
         LET inner == t.cap[1]
             res   == IF r < 0 THEN OpErr("Write", t.id) ELSE OpOk("Write", r, t.id)
             bytes == IF r < 0 THEN <<>> ELSE SubSeq(inner.buf, 1, r)
         IN  /\ out' = IF r < 0 \/ ~track THEN out
                       ELSE Append(out, [tid |-> t.id, bytes |-> bytes])
             /\ tasks' = (tasks \ {t}) \cup {Finished(t, SetLastOp(inner, res))}
             /\ hist' = Recorded(t, res, bytes)
    /\ UNCHANGED <<insts, gvars, tvars, track, kind, state, lock, panic, call, calls, rbuf, sbuf, last_ret>>

\* The closure of poll_flush.
run_flush(t) ==
    /\ t \in tasks /\ ~t.done /\ t.op = "Flush"
    /\ \E ok \in BOOLEAN :
         LET inner == t.cap[1]
             res   == IF ok THEN OpOk("Flush", 0, t.id) ELSE OpErr("Flush", t.id)
         IN  /\ tasks' = (tasks \ {t}) \cup {Finished(t, SetLastOp(inner, res))}
             /\ hist' = Recorded(t, res, <<>>)
    /\ UNCHANGED <<insts, gvars, tvars, track, kind, state, lock, panic, out, call, calls, rbuf, sbuf, last_ret>>

\* Bug: a blocking read that reports more bytes than the buffer it was given.
run_read_overrun(t) ==
    /\ t \in tasks /\ ~t.done /\ t.op = "Read"
    /\ \E r \in -1..(Len(t.cap[1].buf) + 1) :
         LET inner == t.cap[1]
             res   == IF r < 0 THEN OpErr("Read", t.id) ELSE OpOk("Read", r, t.id)
             bytes == IF r < 0 THEN <<>> ELSE Tokens(t.id, r)
         IN  /\ tasks' = (tasks \ {t}) \cup {Finished(t, SetLastOp(inner, res))}
             /\ hist' = Recorded(t, res, bytes)
    /\ UNCHANGED <<insts, gvars, tvars, track, kind, state, lock, panic, out, call, calls, rbuf, sbuf, last_ret>>

\* The closure of poll_read: the blocking read fills the first r bytes of
\* inner.buf with the next r bytes of the input, or fails (r = -1).
run_read(t) ==
    /\ t \in tasks /\ ~t.done /\ t.op = "Read"
    /\ \E r \in -1..Len(t.cap[1].buf) :
         LET inner == t.cap[1]
             res   == IF r < 0 THEN OpErr("Read", t.id) ELSE OpOk("Read", r, t.id)
             bytes == IF r < 0 THEN <<>> ELSE Tokens(t.id, r)
             b     == copy_from_slice(inner.buf, bytes, Len(bytes))
         IN  /\ tasks' = (tasks \ {t}) \cup
                           {Finished(t, SetLastOp([inner EXCEPT !.buf = b], res))}
             /\ hist' = Recorded(t, res, bytes)
    /\ UNCHANGED <<insts, gvars, tvars, track, kind, state, lock, panic, out, call, calls, rbuf, sbuf, last_ret>>

\* The closure of read_line: the line is cleared, then the blocking read_line
\* appends the next line (r bytes; 0 at end of input) to it, or fails
\* (r = -1), leaving what it had read of the line (k bytes) in it.
run_read_line(t) ==
    /\ t \in tasks /\ ~t.done /\ t.op = "ReadLine"
    /\ \E r \in -1..MaxLen, k \in 0..1 :
         /\ r >= 0 => k = 0
         /\ LET inner == t.cap[1]
                got   == Tokens(t.id, IF r < 0 THEN k ELSE r)
                res   == IF r < 0 THEN OpErr("ReadLine", t.id)
                                  ELSE OpOk("ReadLine", r, t.id)
                line  == clear(inner.line) \o got
            IN  /\ tasks' = (tasks \ {t}) \cup
                              {Finished(t, SetLastOp([inner EXCEPT !.line = line], res))}
                /\ hist' = Recorded(t, res, got)
    /\ UNCHANGED <<insts, gvars, tvars, track, kind, state, lock, panic, out, call, calls, rbuf, sbuf, last_ret>>

(***************************************************************************)
(* The specification.                                                      *)
(***************************************************************************)
Next ==
    \/ \E c \in Callers, len \in Lens : poll_write(c, len)
    \/ \E c \in Callers : poll_flush(c)
    \/ \E c \in Callers, len \in Lens : poll_read(c, len)
    \/ \E c \in Callers : read_line(c)
    \/ \E c \in Callers : DropCall(c)
    \/ \E t \in tasks : run_write(t)
    \/ \E t \in tasks : run_flush(t)
    \/ \E t \in tasks : run_read(t)
    \/ \E t \in tasks : run_read_line(t)

Spec == Init /\ [][Next]_vars

(***************************************************************************)
(* The output bridge under fair scheduling.  No history is kept and the    *)
(* stream's output is not recorded, so the state space is finite whatever  *)
(* the number of blocking calls: polls that go on for ever are a cycle.    *)
(***************************************************************************)
FairInit ==
    /\ kind = "out"
    /\ track = FALSE
    /\ state = Idle(<<NewInner>>)
    /\ tasks = {}
    /\ lock = 0
    /\ panic = "none"
    /\ out = <<>>
    /\ call = [c \in Callers |-> NoCall]
    /\ calls = <<>>
    /\ rbuf = [c \in Callers |-> <<>>]
    /\ sbuf = [c \in Callers |-> <<>>]
    /\ last_ret = NoRet
    /\ hist = <<>>
    /\ NoDeadline
    /\ TaskIdFresh
    /\ NoInstances

FairNext ==
    \/ \E c \in Callers, len \in Lens : poll_write(c, len)
    \/ \E c \in Callers : poll_flush(c)
    \/ \E t \in tasks : run_write(t)
    \/ \E t \in tasks : run_flush(t)

\* Every caller that can be polled again and again is polled; a closure
\* handed to the pool is run.
FairSpec ==
    /\ FairInit
    /\ [][FairNext]_vars
    /\ \A c \in Callers : SF_vars(\E len \in Lens : poll_write(c, len))
    /\ \A c \in Callers : SF_vars(poll_flush(c))
    /\ WF_vars(\E t \in tasks : run_write(t))
    /\ WF_vars(\E t \in tasks : run_flush(t))

(***************************************************************************)
(* One caller alone on a bridge, polled again after every completion and   *)
(* never dropping a call.                                                  *)
(***************************************************************************)
\* The caller issues a call only while the history has room for the
\* blocking call it will dispatch.
SoloMayPoll == call[1] # NoCall \/ Len(hist) < MaxTasks

SoloNext ==
    \/ SoloMayPoll /\ \E len \in Lens : poll_write(1, len)
    \/ SoloMayPoll /\ poll_flush(1)
    \/ SoloMayPoll /\ \E len \in Lens : poll_read(1, len)
    \/ SoloMayPoll /\ read_line(1)
    \/ \E t \in tasks : run_write(t)
    \/ \E t \in tasks : run_flush(t)
    \/ \E t \in tasks : run_read(t)
    \/ \E t \in tasks : run_read_line(t)

\* The caller is polled as long as a poll can do something; the pool runs
\* every closure it was handed.
SoloSpec ==
    /\ Init
    /\ [][SoloNext]_vars
    /\ WF_vars(SoloMayPoll /\ \E len \in Lens : poll_write(1, len))
    /\ WF_vars(SoloMayPoll /\ poll_flush(1))
    /\ WF_vars(SoloMayPoll /\ \E len \in Lens : poll_read(1, len))
    /\ WF_vars(SoloMayPoll /\ read_line(1))
    /\ WF_vars(\E t \in tasks : run_write(t))
    /\ WF_vars(\E t \in tasks : run_flush(t))
    /\ WF_vars(\E t \in tasks : run_read(t))
    /\ WF_vars(\E t \in tasks : run_read_line(t))

(***************************************************************************)
(* The Deadline Combinator.                                                *)
(***************************************************************************)
\* A wrapped future that is never ready: future::pending().
Never == MaxTime + 1

Combs == {"future::timeout", "TimeoutFuture::new", "io::timeout", "task::sleep"}

\* The ones that poll an io::Timeout (task::sleep awaits io::timeout).
IoCombs == {"io::timeout", "task::sleep"}

\* Err(TimeoutError { _private: () })
TimeoutError == Err("TimeoutError")

\* Err(io::Error::new(io::ErrorKind::TimedOut, "future timed out"))
TimedOut == Err("TimedOut")

\* What the wrapped future may resolve to.  io::timeout takes a future of
\* io::Result<T>: Ok, an error of another kind, or an error of the kind and
\* text io::timeout itself makes (the wrapped future may be an io::timeout).
\* The generic combinator takes a future of any T: a plain value, or a T
\* that is itself the result of a future::timeout.
Outputs(cb) ==
    IF cb = "io::timeout" THEN {Ok("unit"), Err("Other"), TimedOut}
    ELSE IF cb = "task::sleep" THEN {Ok("unit")}
    ELSE {"unit", "Err(TimeoutError)"}

\* When the wrapped future may become ready.  task::sleep wraps
\* future::pending().
ReadyAt(cb) == IF cb = "task::sleep" THEN {Never} ELSE (0..MaxTime) \cup {Never}

\* timeout(dur, f) / TimeoutFuture::new(f, dur): nothing polled, the timer
\* made for dur and not fired, the time 0.
TimeoutInit ==
    /\ comb \in Combs
    /\ future \in [at : ReadyAt(comb), out : Outputs(comb), taken : {FALSE}]
    /\ delay \in [dur : 0..MaxDur, fired : {FALSE}]
    /\ now = 0
    /\ tdone = "no"
    /\ tret = NoPoll
    /\ late = 0
    /\ repolls = 0
    /\ kind = "out"
    /\ state = Idle(<<NewInner>>)
    /\ tasks = {}
    /\ lock = 0
    /\ panic = "none"
    /\ out = <<>>
    /\ call = [c \in Callers |-> NoCall]
    /\ calls = <<>>
    /\ rbuf = [c \in Callers |-> <<>>]
    /\ sbuf = [c \in Callers |-> <<>>]
    /\ last_ret = NoRet
    /\ hist = <<>>
    /\ track = TRUE
    /\ TaskIdFresh
    /\ NoInstances

\* Time passes.
Tick ==
    /\ now < MaxTime
    /\ now' = now + 1
    /\ UNCHANGED <<insts, gvars, bvars, comb, future, delay, tdone, tret, late, repolls>>

\* The timer fires, once, no earlier than its duration and possibly later.
Fire ==
    /\ ~delay.fired
    /\ now >= delay.dur
    /\ delay' = [delay EXCEPT !.fired = TRUE]
    /\ UNCHANGED <<insts, gvars, bvars, comb, future, now, tdone, tret, late, repolls>>

\* this.future.poll(cx): what the wrapped future may answer.  One that has
\* returned Ready and is polled again may do anything a poll can do.
FuturePoll ==
    IF future.taken THEN {"Pending", "Ready", "Panic"}
    ELSE IF now >= future.at THEN {"Ready"} ELSE {"Pending"}

\* this.delay.poll(cx) / this.timeout.poll(cx)
DelayPoll == IF delay.fired THEN "Ready" ELSE "Pending"

\* Bug: the test of the timer is inverted.
is_pending(p) == p = "Pending"

\* Poll::is_ready
is_ready(p) == p = "Ready"

Answer(res, val, from, timerp) ==
    [res |-> res, val |-> val, from |-> from, timerp |-> timerp]

\* Bug: the timer is polled first, the wrapped future only if it is pending.
TimerFirst_poll(p) ==
    IF DelayPoll = "Ready" THEN Answer("Ready", TimeoutError, "timer", "Ready")
    ELSE IF p = "Ready" THEN Answer("Ready", Ok(future.out), "op", "Pending")
    ELSE Answer("Pending", Ok("none"), "none", "Pending")

\* Bug: the timer is not polled; a pending wrapped future means Pending.
NoTimer_poll(p) ==
    IF p = "Ready" THEN Answer("Ready", Ok(future.out), "op", "NotPolled")
    ELSE Answer("Pending", Ok("none"), "none", "NotPolled")

\* TimeoutFuture::poll, the wrapped future having answered p (Ready or Pending)
TimeoutFuture_poll(p) ==
    IF p = "Ready" THEN Answer("Ready", Ok(future.out), "op", "NotPolled")
    ELSE IF DelayPoll = "Ready" THEN Answer("Ready", TimeoutError, "timer", "Ready")
    ELSE Answer("Pending", Ok("none"), "none", "Pending")

\* Bug: an error of the wrapped future is reported as a timeout.
Timeout_poll_masking(p) ==
    IF p # "Pending"
    THEN Answer("Ready", IF future.out.tag = "Err" THEN TimedOut ELSE future.out,
                "op", "NotPolled")
    ELSE IF is_ready(DelayPoll) THEN Answer("Ready", TimedOut, "timer", "Ready")
    ELSE Answer("Pending", Ok("none"), "none", "Pending")

\* io::Timeout::poll, the wrapped future having answered p (Ready or Pending)
Timeout_poll(p) ==
    IF p # "Pending" THEN Answer("Ready", future.out, "op", "NotPolled")
    ELSE IF is_ready(DelayPoll) THEN Answer("Ready", TimedOut, "timer", "Ready")
    ELSE Answer("Pending", Ok("none"), "none", "Pending")

\* A panic of the wrapped future's poll unwinds through the combinator's.
Unwound == Answer("Panic", Ok("none"), "none", "NotPolled")

\* The bookkeeping of one poll of the combinator that polled the wrapped
\* future (answer p) and returned r.
Polled(p, r) ==
    /\ tret' = [res |-> r.res, val |-> r.val, from |-> r.from, futp |-> p,
                timerp |-> r.timerp, first |-> (tret = NoPoll), at |-> now,
                fired |-> delay.fired]
    /\ future' = [future EXCEPT !.taken = future.taken \/ p = "Ready"]
    /\ tdone' = IF tdone = "no" /\ r.res = "Ready" THEN r.from ELSE tdone
    /\ late' = IF tdone = "timer" THEN late + 1 ELSE late
    /\ repolls' = IF tdone # "no" THEN repolls + 1 ELSE repolls
    /\ UNCHANGED <<insts, gvars, bvars, comb, delay, now>>

\* An `async fn` body that has returned and is polled again panics ("`async
\* fn` resumed after completion"); what it awaited is gone.
Resumed ==
    /\ tret' = [res |-> "Panic", val |-> Ok("none"), from |-> "none",
                futp |-> "NotPolled", timerp |-> "NotPolled", first |-> FALSE,
                at |-> now, fired |-> delay.fired]
    /\ repolls' = repolls + 1
    /\ UNCHANGED <<insts, gvars, bvars, comb, future, delay, now, tdone, late>>

\* One poll of the future made by future::timeout(dur, f): `f.await`
timeout ==
    /\ comb = "future::timeout"
    /\ tdone = "no" \/ repolls < MaxRepolls
    /\ IF tdone # "no" THEN Resumed
       ELSE \E p \in FuturePoll : Polled(p, TimeoutFuture_poll(p))

\* One poll of a TimeoutFuture made by TimeoutFuture::new(f, dur), by whoever
\* holds it: poll has no state of its own and runs the same code each time.
TimeoutFuture_new ==
    /\ comb = "TimeoutFuture::new"
    /\ tdone = "no" \/ repolls < MaxRepolls
    /\ \E p \in FuturePoll :
         Polled(p, IF p = "Panic" THEN Unwound ELSE TimeoutFuture_poll(p))

\* One poll of the future made by io::timeout(dur, f): `Timeout { .. }.await`
io_timeout ==
    /\ comb = "io::timeout"
    /\ tdone = "no" \/ repolls < MaxRepolls
    /\ IF tdone # "no" THEN Resumed
       ELSE \E p \in FuturePoll : Polled(p, Timeout_poll(p))

\* One poll of the future made by task::sleep(dur):
\* `let _: io::Result<()> = io::timeout(dur, future::pending()).await;`
\* It returns () when the io::timeout it awaits is Ready, whatever with.
sleep ==
    /\ comb = "task::sleep"
    /\ tdone = "no" \/ repolls < MaxRepolls
    /\ IF tdone # "no" THEN Resumed
       ELSE \E p \in FuturePoll : Polled(p, Timeout_poll(p))

TimeoutNext ==
    \/ Tick
    \/ Fire
    \/ timeout
    \/ TimeoutFuture_new
    \/ io_timeout
    \/ sleep

TimeoutSpec == TimeoutInit /\ [][TimeoutNext]_vars

\* The combinator keeps being polled (the hypothesis of the claims about
\* what polling it in a loop yields).
TimeoutFairSpec ==
    /\ TimeoutSpec
    /\ WF_vars(timeout)
    /\ WF_vars(TimeoutFuture_new)
    /\ WF_vars(io_timeout)
    /\ WF_vars(sleep)

(***************************************************************************)
(* TaskId::generate.                                                       *)
(***************************************************************************)
\* u64::max_value(), at the width of the model
U64Max == 2^Bits - 1

\* Bug: the test against the limit never fires.
NoLimit == U64Max + 1

\* u64::max_value() / 2
Limit == U64Max \div 2

\* No stream bridge in use.
NoBridge ==
    /\ kind = "out"
    /\ state = Idle(<<NewInner>>)
    /\ tasks = {}
    /\ lock = 0
    /\ panic = "none"
    /\ out = <<>>
    /\ call = [c \in Callers |-> NoCall]
    /\ calls = <<>>
    /\ rbuf = [c \in Callers |-> <<>>]
    /\ sbuf = [c \in Callers |-> <<>>]
    /\ last_ret = NoRet
    /\ hist = <<>>
    /\ track = TRUE

TaskIdInit == TaskIdFresh /\ NoDeadline /\ NoBridge /\ NoInstances

\* let id = COUNTER.fetch_add(1, Ordering::Relaxed): one atomic step that
\* yields the old value and stores the sum, wrapping at the width.
fetch_add(t) ==
    /\ ~aborted
    /\ gen[t].pc = "idle"
    /\ gen' = [gen EXCEPT ![t] = [pc |-> "fetched", id |-> COUNTER]]
    /\ COUNTER' = (COUNTER + 1) % (U64Max + 1)
    /\ wrapped' = (wrapped \/ COUNTER = U64Max)
    /\ UNCHANGED <<insts, bvars, tvars, ids, aborted>>

\* if id > u64::max_value() / 2 { abort() }  TaskId(id)
generate(t) ==
    /\ ~aborted
    /\ gen[t].pc = "fetched"
    /\ IF gen[t].id > Limit
       THEN /\ aborted' = TRUE
            /\ UNCHANGED <<gen, ids>>
       ELSE /\ ids' = Append(ids, gen[t].id)
            /\ gen' = [gen EXCEPT ![t] = [pc |-> "idle", id |-> 0]]
            /\ UNCHANGED aborted
    /\ UNCHANGED <<insts, bvars, tvars, COUNTER, wrapped>>

TaskIdNext ==
    \/ \E t \in Threads : fetch_add(t)
    \/ \E t \in Threads : generate(t)

TaskIdSpec == TaskIdInit /\ [][TaskIdNext]_vars

(***************************************************************************)
(* Instances of the output bridge.  coreout() builds a new Stdout at every *)
(* call; _print calls it for every print and is the only user of what it   *)
(* gets.  One step of a poll is one iteration of its loop, as above.       *)
(***************************************************************************)
\* Stdout(Mutex::new(State::Idle(Some(Inner { coreout, buf: Vec::new(),
\* last_op: None })))), not polled yet.  lock = 1: the user is in poll_write.
NewStdout ==
    [state |-> Idle(<<NewInner>>), lock |-> 0, tasks |-> {}, len |-> 0, res |-> "None"]

\* Bug: the constructor hands out the bridge the process already has, as it
\* is, instead of building one.
coreout_once ==
    /\ Len(insts) < MaxInsts
    /\ insts' = Append(insts, IF insts = <<>> THEN NewStdout ELSE insts[1])
    /\ UNCHANGED <<bvars, tvars, gvars>>

\* coreout()
coreout ==
    /\ Len(insts) < MaxInsts
    /\ insts' = Append(insts, NewStdout)
    /\ UNCHANGED <<bvars, tvars, gvars>>

\* Stdout::poll_write on instance i, called by its user with a buffer of len
\* bytes (the bytes name the instance) until it returns Ready.
Stdout_poll_write(i, len) ==
    /\ i \in DOMAIN insts
    /\ insts[i].res \notin {"Ok", "Err"}
    /\ len \in Lens
    /\ insts[i].len # 0 => len = insts[i].len
    /\ UNCHANGED <<bvars, tvars, gvars>>
    /\ LET b   == insts[i]
           buf == WriteData(i, len)
           In(st, ts)       == [state |-> st, lock |-> 1, tasks |-> ts, len |-> len,
                                res |-> b.res]
           Out(st, ts, res) == [state |-> st, lock |-> 0, tasks |-> ts, len |-> len,
                                res |-> res]
       IN  IF b.state.tag = "Busy"
           THEN LET t == CHOOSE x \in b.tasks : x.id = b.state.task
                IN  IF t.done
                    THEN insts' = [insts EXCEPT ![i] = In(t.ret[1], b.tasks \ {t})]
                    ELSE insts' = [insts EXCEPT ![i] = Out(b.state, b.tasks, "Pending")]
           ELSE LET op    == b.state.opt[1].last_op
                    inner == take(b.state.opt[1])
                IN  IF op.kind = "Write"
                    THEN IF ~op.ok
                         THEN insts' = [insts EXCEPT ![i] = Out(Idle(<<inner>>), b.tasks, "Err")]
                         ELSE IF Fits(op.n, Len(buf))
                         THEN insts' = [insts EXCEPT ![i] = Out(Idle(<<inner>>), b.tasks, "Ok")]
                         ELSE insts' = [insts EXCEPT ![i] = In(Idle(<<inner>>), b.tasks)]
                    ELSE \E junk \in JunkFor(inner.buf, Len(buf)) :
                           LET cap == [inner EXCEPT !.buf =
                                         copy_from_slice(set_len(inner.buf, Len(buf), junk),
                                                         buf, Len(buf))]
                           IN  insts' = [insts EXCEPT ![i] =
                                           In(StateAfterDispatch(1, cap),
                                              b.tasks \cup {spawn_blocking(1, "Write", cap)})]

\* The closure instance i dispatched runs on the pool: the blocking write to
\* the process's standard output takes the first r bytes, or fails (r = -1).
Stdout_write(i) ==
    /\ i \in DOMAIN insts
    /\ UNCHANGED <<bvars, tvars, gvars>>
    /\ \E t \in insts[i].tasks, r \in -1..MaxLen :
         /\ ~t.done
         /\ r <= Len(t.cap[1].buf)
         /\ LET res == IF r < 0 THEN OpErr("Write", t.id) ELSE OpOk("Write", r, t.id)
            IN  insts' = [insts EXCEPT ![i].tasks =
                            (@ \ {t}) \cup {Finished(t, SetLastOp(t.cap[1], res))}]

InstancesInit == NoInstances /\ NoBridge /\ NoDeadline /\ TaskIdFresh

InstancesNext ==
    \/ coreout
    \/ \E i \in 1..MaxInsts, len \in Lens : Stdout_poll_write(i, len)
    \/ \E i \in 1..MaxInsts : Stdout_write(i)

InstancesSpec == InstancesInit /\ [][InstancesNext]_vars

(***************************************************************************)
(* The claims.                                                             *)
(***************************************************************************)
\* The Inner bundles a closure handed to the dispatcher holds: the one it
\* captured while it runs, the one in the State it returned afterwards.
InnersOf(t) ==
    Len(t.cap) + (IF t.ret # <<>> /\ t.ret[1].tag = "Idle" THEN Len(t.ret[1].opt) ELSE 0)

\* C1: at most one dispatched blocking closure exists whose result State the
\* bridge has not adopted yet, whatever the callers and the workers did.
C1_AtMostOneOutstanding == Cardinality(tasks) <= 1

\* C1 happens: a closure is outstanding while both callers are in a call and
\* an earlier closure has already been dispatched and adopted.
C1_Witness ==
    /\ Cardinality(tasks) = 1
    /\ \A c \in Callers : call[c] # NoCall
    /\ Len(hist) >= 2

\* C2: Inner has exactly one owner: the Idle slot, or the single closure in
\* flight (or its result, not adopted yet); never both, never neither.
C2_InnerHasOneOwner ==
    /\ (IF state.tag = "Idle" THEN Len(state.opt) ELSE 0)
         + Cardinality(UNION {{<<t.id, k>> : k \in 1..InnersOf(t)} : t \in tasks}) = 1
    /\ state.tag = "Busy" => \E t \in tasks : t.id = state.task /\ InnersOf(t) = 1
    /\ state.tag = "Idle" => tasks = {}

\* C2 happens: Inner came back from a closure into the Idle slot and is now
\* owned by a second closure, which has finished and was not adopted yet.
C2_Witness ==
    /\ state.tag = "Busy"
    /\ Len(hist) >= 2
    /\ \E t \in tasks : t.done /\ t.cap = <<>>

\* C3: with the mutex free the State is never Idle(None), and no poll ever
\* found the slot empty at `opt.as_mut().unwrap()` / `opt.take().unwrap()`.
C3_NeverIdleNone ==
    /\ lock = 0 => ~(state.tag = "Idle" /\ state.opt = <<>>)
    /\ panic # "unwrap"

\* C3 happens: a poll went through the Idle branch after Inner had been moved
\* out by a dispatch and back in by an adoption.
C3_Witness ==
    /\ lock = 0
    /\ state.tag = "Idle" /\ state.opt # <<>>
    /\ last_ret.res = "Ok"
    /\ Len(hist) >= 2

\* C4: a poll_write or poll_read that returns Ready(Ok(n)) has n <= the length
\* of the buffer passed to that very call, whatever calls came before.
C4_CountFitsBuffer ==
    (last_ret.res = "Ok" /\ last_ret.call.op \in {"Write", "Read"})
        => last_ret.n <= last_ret.call.len

\* C4 happens: a call returned Ok after it had found, and discarded, the
\* result of an earlier call of the same kind whose count exceeds its buffer.
C4_Witness ==
    /\ last_ret.res = "Ok"
    /\ last_ret.call.op \in {"Write", "Read"}
    /\ \E tid \in DOMAIN hist :
         /\ hist[tid].fate = "discarded"
         /\ hist[tid].to = last_ret.call.id
         /\ hist[tid].kind = last_ret.call.op
         /\ hist[tid].ok
         /\ hist[tid].n > last_ret.call.len

\* C5: the stream observes the blocking writes one at a time, in the order
\* they were dispatched, and in the order of the logical calls: no write of a
\* call that had ended before another was issued comes after a write of that
\* other call.
C5_WritesInOrder ==
    /\ Cardinality({t \in tasks : ~t.done}) <= 1
    /\ \A i, j \in 1..Len(out) :
         i < j => /\ out[i].tid < out[j].tid
                  /\ hist[out[j].tid].by \notin calls[hist[out[i].tid].by].pre

\* C5 happens: the stream has observed the writes of two logical calls, the
\* first of which had ended before the second was issued.
C5_Witness ==
    \E i, j \in 1..Len(out) :
        /\ i < j
        /\ hist[out[i].tid].by \in calls[hist[out[j].tid].by].pre

\* A step in which a poll returned Ready(Err): every Ready ends a logical
\* call, so the record of the last return changes.
ReturnsErr == last_ret' # last_ret /\ last_ret'.res = "Err"

\* A step in which a poll of caller c returned Ready(Ok) from read_line.
ReturnsLine(c) ==
    /\ last_ret' # last_ret
    /\ last_ret'.c = c
    /\ last_ret'.res = "Ok"
    /\ last_ret'.call.op = "ReadLine"

\* A step in which caller c dropped the future of its logical call.
Drops(c) ==
    /\ call[c] # NoCall
    /\ call'[c] = NoCall
    /\ calls'[call[c].id].status = "dropped"

IsPrefix(a, b) == Len(a) <= Len(b) /\ SubSeq(b, 1, Len(a)) = a

C7_NoErrorDropped ==
    \A tid \in DOMAIN hist : ~hist[tid].ok => hist[tid].fate # "discarded"

\* C8: requests are resolved in the order their dispatches started, each caller
\* receiving the result of its own dispatch: a Ready result is the result of
\* a dispatch of the call it resolves, and a call is resolved only after the
\* results of all earlier dispatches went to the calls that dispatched them.
C8_OwnResultInDispatchOrder ==
    /\ last_ret.res \in {"Ok", "Err"} => hist[last_ret.tid].by = last_ret.call.id
    /\ \A t1, t2 \in DOMAIN hist :
         (t1 < t2 /\ hist[t2].fate = "returned")
            => (hist[t1].fate = "returned" /\ hist[t1].to = hist[t1].by)

\* C9: dropping a logical call changes nothing in the bridge and cancels no
\* closure; a running closure stays until it has run to its end, recording
\* its outcome in the last_op of the State it returns; that State leaves the
\* dispatcher only by being adopted, and the next poll of any caller that
\* finds it finished adopts it (a poll that panics adopts nothing).
C9_DropDoesNotCancel ==
    [][ /\ (\E c \in Callers : Drops(c)) => (state' = state /\ tasks' = tasks)
        /\ \A t \in tasks :
             /\ ~t.done =>
                  \E u \in tasks' :
                      /\ u.id = t.id
                      /\ \/ u = t
                         \/ /\ u.done
                            /\ u.ret[1].tag = "Idle" /\ u.ret[1].opt # <<>>
                            /\ u.ret[1].opt[1].last_op.kind = t.op
                            /\ u.ret[1].opt[1].last_op.tid = t.id
             /\ (t.done /\ t \notin tasks') => state' = t.ret[1]
        /\ \A t \in tasks :
             (/\ state = Busy(t.id)
              /\ t.done
              /\ panic' = "none"
              /\ ~(\E c \in Callers : Drops(c)))
                => (state' = t.ret[1] /\ t \notin tasks')
      ]_vars

\* C9 happens: the State of a closure whose logical call was dropped has been
\* adopted, and its outcome is in last_op.
C9_Witness ==
    /\ state.tag = "Idle" /\ state.opt # <<>>
    /\ state.opt[1].last_op.kind # "None"
    /\ calls[hist[state.opt[1].last_op.tid].by].status = "dropped"

\* C10: the String a caller passes to read_line only ever grows at its end,
\* and only by a read_line that returns Ok: such a call appends exactly the
\* line that one blocking line read produced, a line not appended before, and
\* returns that read's count.
C10_LineAppendedOnce ==
    [][ \A c \in Callers :
          /\ IsPrefix(sbuf[c], sbuf'[c])
          /\ sbuf'[c] # sbuf[c] => ReturnsLine(c)
          /\ ReturnsLine(c) =>
               LET h == hist[last_ret'.tid]
               IN  /\ h.kind = "ReadLine" /\ h.ok /\ h.fate = "done"
                   /\ sbuf'[c] = sbuf[c] \o h.data
                   /\ last_ret'.n = Len(h.data)
      ]_vars

\* C10 happens: one caller's String holds the lines of two blocking line
\* reads, and read_line has returned.
C10_Witness ==
    /\ last_ret.res = "Ok" /\ last_ret.call.op = "ReadLine"
    /\ \E c \in Callers : Cardinality({sbuf[c][i] : i \in DOMAIN sbuf[c]}) >= 2

\* A step of the poll call that holds the mutex (a worker's step changes
\* neither the State nor the mutex).
HolderSteps == lock # 0 /\ <<lock, state>>' # <<lock, state>>

\* A logical call ends in this step, by a Ready result or by a panic.
CallEnds(id) ==
    /\ calls'[id].status \in {"done", "panicked"}
    /\ id \in DOMAIN calls => calls[id].status = "live"

\* The bridge is Idle(Some(Inner)) and holds no recorded result.
CleanIdle == state.tag = "Idle" /\ state.opt # <<>> /\ state.opt[1].last_op = NoOp

\* C11: when the handle of a dispatched write has completed with Write(Ok(k)),
\* the next poll of the bridge adopts the returned State and goes on under the
\* mutex; being a poll_write whose buffer has at least k bytes, it returns
\* Ready(Ok(k)) and leaves Idle(Some(Inner)) with last_op = None and the
\* mutex free, dispatching nothing.
C11_CompletedWriteIsReturned ==
    [][ /\ \A t \in tasks :
             (/\ state = Busy(t.id)
              /\ t.done /\ t.op = "Write"
              /\ panic' = "none"
              /\ ~(\E c \in Callers : Drops(c)))
                => (state' = t.ret[1] /\ tasks' = {} /\ lock' # 0)
        /\ (/\ HolderSteps
            /\ call[lock].op = "Write"
            /\ state.tag = "Idle" /\ state.opt # <<>>
            /\ state.opt[1].last_op.kind = "Write"
            /\ state.opt[1].last_op.ok
            /\ state.opt[1].last_op.n <= call[lock].len)
              => /\ last_ret' = [c |-> lock, call |-> call[lock], res |-> "Ok",
                                 n |-> state.opt[1].last_op.n,
                                 tid |-> state.opt[1].last_op.tid]
                 /\ state' = Idle(<<[state.opt[1] EXCEPT !.last_op = NoOp]>>)
                 /\ tasks' = {}
                 /\ lock' = 0
      ]_vars

\* C11 happens: poll_write returned Ok(k), k > 0, the count of the write its
\* own call dispatched, and the bridge is Idle(Some) with nothing recorded.
C11_Witness ==
    /\ last_ret.res = "Ok" /\ last_ret.call.op = "Write" /\ last_ret.n > 0
    /\ hist[last_ret.tid].by = last_ret.call.id
    /\ hist[last_ret.tid].n = last_ret.n
    /\ CleanIdle
    /\ lock = 0

\* C17: a poll that dispatches leaves State = Busy, and the poll call that
\* has just dispatched (it holds the mutex and finds Busy) returns Pending
\* without touching the State, unless it panics.
C17_DispatchReturnsPending ==
    [][ /\ Len(hist') > Len(hist) => (state' = Busy(Len(hist')) /\ lock' # 0)
        /\ (HolderSteps /\ state.tag = "Busy" /\ panic' = "none")
              => (/\ lock' = 0
                  /\ state' = state
                  /\ last_ret'.res = "Pending"
                  /\ last_ret'.c = lock)
      ]_vars

\* C18: every step in which a poll call returns (the record of the last
\* return changes) or a logical call ends leaves the mutex free, and the
\* mutex is only ever held by a caller inside a call that has not ended.
C18_LockReleasedOnReturn ==
    [][ /\ (\/ last_ret' # last_ret
            \/ \E id \in DOMAIN calls' : CallEnds(id))
              => lock' = 0
        /\ lock' # 0 => /\ call'[lock'] # NoCall
                        /\ calls'[call'[lock'].id].status = "live"
      ]_vars

\* C18 happens: polls have left by Ready(Ok), by Ready(Err) and by Pending,
\* and the mutex is free.
C18_Witness ==
    /\ lock = 0
    /\ last_ret.res = "Pending"
    /\ \E t1, t2 \in DOMAIN hist :
         /\ hist[t1].fate = "returned" /\ hist[t1].ok
         /\ hist[t2].fate = "returned" /\ ~hist[t2].ok

\* C19: a blocking call is made only by a closure that was handed to the
\* dispatcher before, in a step of the worker: such a step leaves the mutex,
\* the State, the callers and their buffers alone, and no step of a poll
\* makes a closure finished or writes to the stream.
C19_BlockingOnlyInWorker ==
    [][ (\/ out' # out
         \/ \E t \in tasks' : t.done /\ t \notin tasks
         \/ \E tid \in DOMAIN hist :
              hist[tid].fate = "running" /\ hist'[tid].fate # "running")
           => /\ \E u \in tasks : ~u.done /\ \E t \in tasks' : t.done /\ t.id = u.id
              /\ \A t \in tasks' : (t.done /\ t \notin tasks) =>
                     \E u \in tasks : ~u.done /\ u.id = t.id
              /\ UNCHANGED <<state, lock, panic, call, calls, rbuf, sbuf, last_ret>>
      ]_vars

\* C19 happens: a worker has finished a blocking write to the stream while a
\* poll call was holding the mutex.
C19_Witness ==
    /\ lock # 0
    /\ out # <<>>
    /\ \E t \in tasks : t.done /\ t.op = "Write"

\* C20: once the mutex is poisoned it stays poisoned; no later poll returns
\* (no Ready, no Pending: the record of the last return stays, no call is
\* left pending or completed), none touches the State, and every logical
\* call that is polled ends in a panic.
C20_PoisonIsFatal ==
    [][ panic # "none" =>
          /\ panic' = panic
          /\ lock = 0 /\ lock' = 0
          /\ state' = state
          /\ last_ret' = last_ret
          /\ \A id \in DOMAIN calls' :
               calls'[id].status \in {"live", "done"}
                  => (id \in DOMAIN calls /\ calls[id].status = calls'[id].status)
          /\ \A c \in Callers : call'[c] \in {call[c], NoCall}
      ]_vars

\* C20 happens: a poll panicked holding the mutex, and a later poll of
\* another logical call panicked at lock().unwrap().
C20_Witness ==
    /\ panic # "none"
    /\ Cardinality({id \in DOMAIN calls : calls[id].status = "panicked"}) >= 2

\* The value by which this combinator reports a timeout.
TimeoutValue == IF comb \in IoCombs THEN TimedOut ELSE TimeoutError

\* The value by which this combinator reports the wrapped future's output.
Passed == IF comb \in IoCombs THEN future.out ELSE Ok(future.out)

\* C12: a poll of the combinator in which the wrapped future was ready
\* returns the future's result, not a timeout, and does not poll the timer,
\* fired or not; the timer is polled only in a poll in which the wrapped
\* future answered Pending.
C12_OperationFirst ==
    /\ tret.futp = "Ready" =>
          /\ tret.res = "Ready"
          /\ tret.from = "op"
          /\ tret.val = Passed
          /\ tret.timerp = "NotPolled"
    /\ tret.timerp # "NotPolled" => tret.futp = "Pending"

\* C12 happens: the wrapped future was ready before the duration had passed,
\* the combinator was polled for the first time at or after it, the timer
\* fired, and that poll returned the future's result.
C12_Witness ==
    /\ tret.first
    /\ tret.futp = "Ready" /\ tret.res = "Ready" /\ tret.from = "op"
    /\ tret.fired
    /\ future.at < delay.dur
    /\ tret.at >= delay.dur

\* C13: a poll reports the timeout only if in that poll the wrapped future
\* answered Pending and the timer answered elapsed; the timer had fired,
\* and the time was not before the duration.
C13_TimeoutOnlyWhenElapsed ==
    /\ tret.from = "timer" =>
          /\ tret.res = "Ready"
          /\ tret.val = TimeoutValue
          /\ tret.futp = "Pending"
          /\ tret.timerp = "Ready"
          /\ tret.fired
          /\ tret.at >= delay.dur
    /\ tdone = "timer" => (delay.fired /\ now >= delay.dur)

\* C13 happens: a timeout was reported at the very time the duration ended.
C13_Witness ==
    /\ tret.from = "timer"
    /\ delay.dur > 0
    /\ tret.at = delay.dur

\* C14: with a wrapped future that is never ready and a combinator that
\* keeps being polled, once the timer has fired the combinator gets to
\* return the timeout error.
C14_EventuallyTimesOut ==
    (future.at = Never /\ delay.fired) ~> (tdone = "timer")

\* C14 happens: a combinator wrapping a future that is never ready was polled
\* before the timer fired, was polled again, and reported the timeout.
C14_Witness ==
    /\ future.at = Never
    /\ tdone = "timer"
    /\ tret.from = "timer" /\ ~tret.first
    /\ delay.dur > 0

\* C15: once the combinator has reported a timeout, no poll of it polls the
\* wrapped future.
C15_NoPollAfterTimeout == late = 0

\* C16: the result of the combinator tells where it came from: it is the
\* combinator's timeout value exactly when the timer produced it.
C16_TimeoutDistinguishable ==
    tret.res = "Ready" => (tret.val = TimeoutValue <=> tret.from = "timer")

\* The mutex is held and the State is Idle(Some(inner)): the poll that holds
\* it is about to look at inner.last_op.
HolderAtIdle == HolderSteps /\ state.tag = "Idle" /\ state.opt # <<>>

\* The recorded result the holder finds.
Found == state.opt[1].last_op

\* The buffer caller c passes to the poll_read of this step.
PassedIn(c) == IF call[c] = NoCall THEN Zeros(call'[c].len) ELSE rbuf[c]

\* C23: a poll that finds Busy with a finished closure stores the yielded
\* State and goes on under the mutex instead of returning; a poll that, under
\* the mutex, finds a recorded result of its own operation which is an error
\* or a count that fits its buffer returns Ready with it in that step.
C23_AdoptAndContinue ==
    [][ /\ \A t \in tasks :
             (/\ state = Busy(t.id) /\ t.done
              /\ panic' = "none"
              /\ ~(\E c \in Callers : Drops(c)))
                => /\ state' = t.ret[1]
                   /\ lock' # 0
                   /\ call'[lock'] # NoCall
                   /\ last_ret' = last_ret
        /\ (/\ HolderAtIdle
            /\ Found.kind = call[lock].op
            /\ (Found.ok /\ Found.kind \in {"Write", "Read"}) => Found.n <= call[lock].len)
              => /\ lock' = 0
                 /\ last_ret'.c = lock /\ last_ret'.call = call[lock]
                 /\ last_ret'.res = (IF Found.ok THEN "Ok" ELSE "Err")
                 /\ last_ret'.n = Found.n
                 /\ last_ret'.tid = Found.tid
      ]_vars

\* C23 happens: a call that had been answered Pending is polled again, has
\* found the closure finished and adopted its State, and holds the mutex with
\* a result of its own operation in front of it.
C23_Witness ==
    /\ lock # 0
    /\ state.tag = "Idle" /\ state.opt # <<>>
    /\ state.opt[1].last_op.kind = call[lock].op
    /\ state.opt[1].last_op.ok
    /\ last_ret.res = "Pending" /\ last_ret.call.id = call[lock].id

\* C24: a poll that finds Busy with a closure that has not finished returns
\* Pending and changes nothing: the State, the dispatched closure with the
\* Inner it owns, the stream and the callers' buffers stay as they are and
\* the mutex is free.
C24_BusyPollChangesNothing ==
    [][ \A t \in tasks :
          (/\ state = Busy(t.id) /\ ~t.done
           /\ ~(\E u \in tasks' : u.id = t.id /\ u.done)
           /\ panic' = "none"
           /\ ~(\E c \in Callers : Drops(c)))
             => /\ state' = state
                /\ tasks' = tasks
                /\ hist' = hist
                /\ out' = out
                /\ sbuf' = sbuf
                /\ \A c \in Callers : rbuf'[c] = rbuf[c] \/ rbuf'[c] = PassedIn(c)
                /\ lock' = 0
                /\ \A id \in DOMAIN calls' : calls'[id].status # "done"
                      \/ (id \in DOMAIN calls /\ calls[id].status = "done")
                /\ last_ret'.res = "Pending"
      ]_vars

\* C24 happens: a poll of a call other than the one that dispatched the
\* running closure found Busy and was answered Pending.
C24_Witness ==
    /\ last_ret.res = "Pending"
    /\ lock = 0
    /\ state.tag = "Busy"
    /\ \E t \in tasks : t.id = state.task /\ ~t.done
                        /\ hist[t.id].by # last_ret.call.id

\* The blocking call that finished last.
LastCompleted ==
    CHOOSE tid \in DOMAIN hist :
        /\ hist[tid].fate # "running"
        /\ \A u \in DOMAIN hist : hist[u].fate # "running" => u <= tid

\* C25: what a finished closure yields is Idle(Some(inner)) whose last_op is
\* set, of the kind of the operation that dispatched the closure and with
\* that closure's outcome; a recorded result in the bridge is always the one
\* of the blocking call that finished last.
C25_ClosureYieldsIdleSome ==
    /\ \A t \in tasks :
         t.done =>
            /\ t.ret[1].tag = "Idle"
            /\ t.ret[1].opt # <<>>
            /\ t.ret[1].opt[1].last_op.kind = t.op
            /\ t.ret[1].opt[1].last_op.kind = hist[t.id].kind
            /\ t.ret[1].opt[1].last_op.tid = t.id
            /\ t.ret[1].opt[1].last_op.ok = hist[t.id].ok
    /\ (state.tag = "Idle" /\ state.opt # <<>> /\ state.opt[1].last_op # NoOp)
          => /\ state.opt[1].last_op.tid = LastCompleted
             /\ state.opt[1].last_op.kind = hist[LastCompleted].kind

\* C25 happens: a finished closure's State waits to be adopted, after a
\* blocking call of the other kind had finished before it.
C25_Witness ==
    \E t \in tasks :
        /\ t.done
        /\ \E u \in DOMAIN hist : u < t.id /\ hist[u].kind # t.op

\* Every logical call so far was issued after all calls before it had ended,
\* and none was dropped or ended in a panic: one caller at a time, each call
\* polled to completion.
Solo ==
    \A k \in DOMAIN calls :
        /\ calls[k].pre = 1..(k - 1)
        /\ calls[k].status \in {"live", "done"}

\* The blocking calls logical call k has dispatched.
DispatchedBy(k) == {tid \in DOMAIN hist : hist[tid].by = k}

\* C26: with one call at a time and each polled to completion, a closure of
\* poll_write holds exactly the bytes of its caller's buffer; a completed
\* write call has caused exactly one blocking write, and what it returned is
\* that blocking call's outcome; the stream has seen one blocking write per
\* successful call, in order, each a prefix of that call's bytes.
C26_OneWritePerCall ==
    Solo =>
      /\ \A t \in tasks :
           (~t.done /\ t.op = "Write") =>
              \E c \in Callers :
                  /\ call[c].id = hist[t.id].by
                  /\ t.cap[1].buf = WriteData(call[c].id, call[c].len)
      /\ \A k \in DOMAIN calls :
           (calls[k].status = "done" /\ \E tid \in DispatchedBy(k) : hist[tid].kind = "Write")
              => /\ Cardinality(DispatchedBy(k)) = 1
                 /\ \A tid \in DispatchedBy(k) :
                       hist[tid].fate = "returned" /\ hist[tid].to = k
      /\ (last_ret.res \in {"Ok", "Err"} /\ last_ret.call.op = "Write")
            => /\ hist[last_ret.tid].by = last_ret.call.id
               /\ hist[last_ret.tid].ok = (last_ret.res = "Ok")
               /\ hist[last_ret.tid].n = last_ret.n
               /\ hist[last_ret.tid].data = WriteData(last_ret.call.id, last_ret.n)
      /\ \A i \in DOMAIN out :
            /\ hist[out[i].tid].kind = "Write"
            /\ out[i].bytes = WriteData(hist[out[i].tid].by, Len(out[i].bytes))
            /\ \A j \in DOMAIN out : i < j => hist[out[i].tid].by < hist[out[j].tid].by

\* C26 happens: one call at a time, a write of two bytes completed and then a
\* write of one byte completed, and the stream has seen both.
C26_Witness ==
    /\ Solo
    /\ Len(out) = 2
    /\ Len(out[1].bytes) = 2
    /\ Len(out[2].bytes) = 1
    /\ last_ret.res = "Ok" /\ last_ret.tid = out[2].tid
    /\ \A k \in DOMAIN calls : calls[k].status = "done"

\* C27: a poll_write or poll_read that, under the mutex, finds a recorded
\* count of its own operation greater than its buffer's length drops it and
\* goes round the loop, returning nothing; the poll that holds the mutex at
\* Idle with nothing recorded dispatches a blocking call of its own
\* operation, for write with its own buffer's bytes, and keeps the mutex.
C27_StaleDiscarded ==
    [][ /\ (/\ HolderAtIdle
            /\ Found.kind = call[lock].op
            /\ Found.kind \in {"Write", "Read"}
            /\ Found.ok
            /\ Found.n > call[lock].len)
              => /\ state' = Idle(<<[state.opt[1] EXCEPT !.last_op = NoOp]>>)
                 /\ lock' = lock
                 /\ last_ret' = last_ret
                 /\ call' = call /\ calls' = calls
                 /\ rbuf' = rbuf
                 /\ hist'[Found.tid].fate = "discarded"
        /\ (HolderAtIdle /\ Found = NoOp)
              => /\ Len(hist') = Len(hist) + 1
                 /\ hist'[Len(hist')].by = call[lock].id
                 /\ hist'[Len(hist')].kind = call[lock].op
                 /\ state' = Busy(Len(hist'))
                 /\ lock' = lock
                 /\ last_ret' = last_ret
                 /\ \E t \in tasks' :
                       /\ t.id = Len(hist') /\ ~t.done /\ t.op = call[lock].op
                       /\ t.op \in {"Write", "Read"} => Len(t.cap[1].buf) = call[lock].len
                       /\ t.op = "Write" =>
                             t.cap[1].buf = WriteData(call[lock].id, call[lock].len)
      ]_vars

\* C27 happens: a count larger than the polling call's buffer was dropped and
\* that call, still in the same poll, has dispatched a blocking call of its
\* own.
C27_Witness ==
    /\ lock # 0
    /\ state.tag = "Busy"
    /\ hist[state.task].by = call[lock].id
    /\ \E tid \in DOMAIN hist :
         /\ tid + 1 = state.task
         /\ hist[tid].fate = "discarded" /\ hist[tid].ok
         /\ hist[tid].kind = call[lock].op
         /\ hist[tid].to = call[lock].id
         /\ hist[tid].n > call[lock].len

\* C28: when poll_read returns Ready(Ok(n)), the first n bytes of the
\* caller's slice are the n bytes the consumed blocking read put at the head
\* of the inner buffer, and the bytes from n on are the caller's as passed in.
C28_ReadCopiesPrefix ==
    [][ \A c \in Callers :
          (/\ last_ret' # last_ret
           /\ last_ret'.c = c
           /\ last_ret'.res = "Ok"
           /\ last_ret'.call.op = "Read")
             => /\ Len(rbuf'[c]) = last_ret'.call.len
                /\ last_ret'.n = hist[last_ret'.tid].n
                /\ Len(hist[last_ret'.tid].data) = last_ret'.n
                /\ \A i \in 1..Len(rbuf'[c]) :
                      rbuf'[c][i] = IF i <= last_ret'.n
                                    THEN hist[last_ret'.tid].data[i]
                                    ELSE PassedIn(c)[i]
      ]_vars

\* C28 happens: poll_read returned a count smaller than the slice: the head
\* of the slice holds the bytes of the blocking read, its tail the caller's.
C28_Witness ==
    /\ last_ret.res = "Ok" /\ last_ret.call.op = "Read"
    /\ last_ret.n >= 1 /\ last_ret.n < last_ret.call.len
    /\ rbuf[last_ret.c][1] = last_ret.tid
    /\ rbuf[last_ret.c][last_ret.call.len] = 0

\* C30: a poll that, under the mutex, finds a recorded result of the other
\* operation of its bridge takes it, returns it to nobody, and dispatches a
\* blocking call of its own operation in the same step; the closure gets an
\* Inner with nothing recorded.
C30_OtherKindDiscarded ==
    [][ (HolderAtIdle /\ Found.kind \notin {"None", call[lock].op})
           => /\ hist'[Found.tid].fate = "discarded"
              /\ last_ret' = last_ret
              /\ lock' = lock
              /\ Len(hist') = Len(hist) + 1
              /\ hist'[Len(hist')].kind = call[lock].op
              /\ hist'[Len(hist')].by = call[lock].id
              /\ state' = Busy(Len(hist'))
              /\ \E t \in tasks' :
                    /\ t.id = Len(hist') /\ ~t.done /\ t.op = call[lock].op
                    /\ t.cap[1].last_op = NoOp
      ]_vars

\* C30 happens: a successful result was taken by a poll of the other
\* operation, which has dispatched its own blocking call.
C30_Witness ==
    /\ lock # 0
    /\ state.tag = "Busy"
    /\ hist[state.task].by = call[lock].id
    /\ \E tid \in DOMAIN hist :
         /\ tid + 1 = state.task
         /\ hist[tid].fate = "discarded" /\ hist[tid].ok
         /\ hist[tid].kind # hist[state.task].kind
         /\ hist[tid].to = call[lock].id

\* C21: task::sleep(dur) has completed only if the timer of its io::timeout
\* produced the completion, fired, at a time not before dur; and, polled
\* again and again, once the timer has fired it gets to complete.
C21_SleepCompletesAfterTimer ==
    /\ [](comb = "task::sleep" =>
            /\ tdone # "no" => (tdone = "timer" /\ delay.fired /\ now >= delay.dur)
            /\ tret.res = "Ready" =>
                  (tret.from = "timer" /\ tret.fired /\ tret.at >= delay.dur))
    /\ ((comb = "task::sleep" /\ delay.fired) ~> (tdone = "timer"))

\* C21 happens: a sleep of a positive duration was polled before its timer
\* fired, polled again after, and completed.
C21_Witness ==
    /\ comb = "task::sleep"
    /\ delay.dur > 0
    /\ tdone = "timer"
    /\ tret.res = "Ready" /\ ~tret.first

\* C29: both combinators take the same decision in a poll (the wrapped
\* future's output if it is ready, else the timeout if the timer has fired,
\* else Pending) and differ in the shape of what they return: the generic
\* one Ok(v) or Err(TimeoutError), the I/O one the wrapped io::Result as it
\* is, Ok or Err, or Err of kind TimedOut.
C29_ResultShapes ==
    /\ tret.res \in {"Pending", "Ready"} =>
          tret.from = (IF tret.futp = "Ready" THEN "op"
                       ELSE IF tret.fired THEN "timer" ELSE "none")
    /\ tret.res = "Ready" <=> tret.from \in {"op", "timer"}
    /\ (tret.res = "Ready" /\ comb \in {"future::timeout", "TimeoutFuture::new"}) =>
          tret.val = (IF tret.from = "op" THEN [tag |-> "Ok", p |-> future.out]
                      ELSE [tag |-> "Err", p |-> "TimeoutError"])
    /\ (tret.res = "Ready" /\ comb \in {"io::timeout", "task::sleep"}) =>
          tret.val = (IF tret.from = "op" THEN future.out
                      ELSE [tag |-> "Err", p |-> "TimedOut"])

\* C29 happens: io::timeout has returned the wrapped future's own error.
C29_Witness ==
    /\ comb = "io::timeout"
    /\ tret.res = "Ready" /\ tret.from = "op"
    /\ tret.val = Err("Other")

\* The ids fetched by calls of generate that have not returned yet.
InFlight == {gen[t].id : t \in {u \in Threads : gen[u].pc = "fetched"}}

\* C22: no two calls of generate return the same id, whatever the
\* interleaving; the ids handed out so far, returned or about to be, are
\* 1, 2, .. without a gap or a repeat; none returned is above the limit, the
\* process is aborted only by a call that fetched an id above it, and the
\* counter has never wrapped.
C22_TaskIdsUnique ==
    /\ \A i, j \in DOMAIN ids : i # j => ids[i] # ids[j]
    /\ \A i \in DOMAIN ids : ids[i] >= 1 /\ ids[i] <= Limit
    /\ ~wrapped
    /\ {ids[i] : i \in DOMAIN ids} \cup InFlight = 1..(COUNTER - 1)
    /\ Len(ids) + Cardinality({t \in Threads : gen[t].pc = "fetched"}) = COUNTER - 1
    /\ aborted => \E t \in Threads : gen[t].pc = "fetched" /\ gen[t].id > Limit

\* C22 happens: concurrent calls returned their ids out of order, every id
\* up to the limit was returned, and the call that fetched the next one
\* aborted the process.
C22_Witness ==
    /\ aborted
    /\ Len(ids) = Limit
    /\ \E i \in DOMAIN ids : i < Len(ids) /\ ids[i] > ids[i + 1]

\* Every Inner there is: in the slot, captured by a closure, or in the State
\* a finished closure has returned.
Inners ==
    (IF state.tag = "Idle" /\ state.opt # <<>> THEN {state.opt[1]} ELSE {})
      \cup {t.cap[1] : t \in {u \in tasks : ~u.done}}
      \cup {t.ret[1].opt[1] : t \in {u \in tasks : u.done /\ u.ret[1].opt # <<>>}}

\* C36: on the Stdin bridge, wherever Inner is, a recorded Read(Ok(n)) has
\* n <= the length of Inner's buffer, and no poll_read ever panicked at the
\* slices of its copy.
C36_ReadCountWithinBuffer ==
    kind = "in" =>
      /\ \A inner \in Inners :
            (inner.last_op.kind = "Read" /\ inner.last_op.ok)
               => inner.last_op.n <= Len(inner.buf)
      /\ panic # "slice"

\* C36 happens: a read filled the whole of a buffer that a later dispatch had
\* made shorter than an earlier read found it.
C36_Witness ==
    /\ kind = "in"
    /\ state.tag = "Idle" /\ state.opt # <<>>
    /\ Found.kind = "Read" /\ Found.ok
    /\ Found.n = Len(state.opt[1].buf)
    /\ \E tid \in DOMAIN hist :
          tid < Found.tid /\ hist[tid].kind = "Read" /\ hist[tid].n > Found.n

\* C37: a read_line or poll_read that returns Ready(Err) leaves every
\* caller's String and slice as they were passed in, and leaves the bridge
\* Idle(Some(Inner)) with last_op = None, the line and the buffer of Inner
\* untouched.
C37_ErrLeavesBufferAlone ==
    [][ (ReturnsErr /\ last_ret'.call.op \in {"Read", "ReadLine"})
           => /\ sbuf' = sbuf
              /\ \A c \in Callers :
                    rbuf'[c] = IF c = last_ret'.c /\ last_ret'.call.op = "Read"
                                  /\ call[c] = NoCall
                               THEN Zeros(last_ret'.call.len)
                               ELSE rbuf[c]
              /\ state.tag = "Idle" /\ state.opt # <<>>
              /\ state' = Idle(<<[state.opt[1] EXCEPT !.last_op = NoOp]>>)
      ]_vars

\* C37 happens: read_line returned an error when the failed blocking call had
\* left part of a line in Inner, to a caller whose String already holds a
\* line.
C37_Witness ==
    /\ last_ret.res = "Err" /\ last_ret.call.op = "ReadLine"
    /\ sbuf[last_ret.c] # <<>>
    /\ state.tag = "Idle" /\ state.opt # <<>>
    /\ state.opt[1].line # <<>>
    /\ state.opt[1].line[1] = last_ret.tid

\* C31: the stream is handed bytes of one logical write call by at most one
\* blocking write: no two blocking writes that handed bytes to the stream
\* were dispatched by the same logical call.
C31_OneBlockingWritePerCall ==
    \A i, j \in DOMAIN out :
        (i < j /\ out[i].bytes # <<>> /\ out[j].bytes # <<>>)
           => hist[out[i].tid].by # hist[out[j].tid].by

\* The recorded result is the one of a blocking write whose logical call was
\* dropped.
DroppedWrite(op) ==
    /\ op.kind = "Write"
    /\ calls[hist[op.tid].by].status = "dropped"

\* C32: a poll_write of a call issued after another write call was dropped
\* that, under the mutex, finds the recorded result of the dropped call's
\* blocking write, an error or a count within its own buffer, returns Ready
\* with that result in that step; its logical call ends having dispatched no
\* blocking call at all, and the step dispatches none.
C32_DroppedWriteResultDelivered ==
    [][ (/\ HolderAtIdle
         /\ call[lock].op = "Write"
         /\ DroppedWrite(Found)
         /\ hist[Found.tid].by \in calls[call[lock].id].pre
         /\ Found.ok => Found.n <= call[lock].len)
           => /\ last_ret' = [c |-> lock, call |-> call[lock],
                              res |-> IF Found.ok THEN "Ok" ELSE "Err",
                              n |-> Found.n, tid |-> Found.tid]
              /\ calls'[call[lock].id].status = "done"
              /\ call'[lock] = NoCall
              /\ DispatchedBy(call[lock].id) = {}
              /\ hist' = [hist EXCEPT ![Found.tid].fate = "returned",
                                      ![Found.tid].to = call[lock].id]
              /\ tasks' = {}
              /\ out' = out
      ]_vars

\* C32 happens: a write call returned the count of a dropped call's blocking
\* write; the stream has seen the dropped call's bytes and none of the call
\* that returned.
C32_Witness ==
    /\ last_ret.res = "Ok" /\ last_ret.call.op = "Write" /\ last_ret.n >= 1
    /\ DroppedWrite([kind |-> "Write", tid |-> last_ret.tid])
    /\ hist[last_ret.tid].by \in calls[last_ret.call.id].pre
    /\ DispatchedBy(last_ret.call.id) = {}
    /\ Len(out) = 1
    /\ out[1].tid = last_ret.tid
    /\ out[1].bytes = WriteData(hist[last_ret.tid].by, last_ret.n)

\* How far the poll of logical call cl is from returning, by the State st it
\* finds under the mutex: 1 a result it returns, 2 the closure it dispatched,
\* 3 nothing recorded, 4 a result it drops, 0 an empty slot.
Rank(st, cl) ==
    IF st.tag = "Busy" THEN 2
    ELSE IF st.opt = <<>> THEN 0
    ELSE LET op == st.opt[1].last_op
         IN  IF op.kind = "None" THEN 3
             ELSE IF /\ op.kind = cl.op
                     /\ (op.ok /\ cl.op \in {"Write", "Read"}) => op.n <= cl.len
                  THEN 1
                  ELSE 4

\* C35: every iteration of a poll's loop after the first either leaves the
\* function or brings the poll strictly nearer to returning, from at most 4:
\* a dropped result (4) is followed by nothing recorded (3) or by the poll's
\* own closure (2), nothing recorded by the poll's own closure, the poll's own
\* closure by the result the poll returns (1).  With the first iteration (an
\* adoption at most) a poll call makes no more than five: two adoptions, one
\* dropped result, one dispatch, and the return.
C35_PollTerminates ==
    [][ HolderSteps =>
          /\ Rank(state, call[lock]) \in 1..4
          /\ IF lock' = lock
             THEN /\ Rank(state, call[lock]) > 1
                  /\ Rank(state', call'[lock]) < Rank(state, call[lock])
                  /\ Rank(state', call'[lock]) >= 1
             ELSE lock' = 0
          /\ Rank(state, call[lock]) = 1 => (lock' = 0 /\ call'[lock] = NoCall)
          /\ Rank(state, call[lock]) = 4 => hist'[Found.tid].fate = "discarded"
          /\ Rank(state, call[lock]) \in {3, 4} =>
                (Rank(state', call'[lock]) = 2 <=> Len(hist') = Len(hist) + 1)
      ]_vars

\* C35 happens: a poll call, the first of its logical call, has adopted a
\* stale count, dropped it, dispatched, adopted its own closure's State and
\* is about to return from its fifth iteration.
C35_Witness ==
    /\ lock # 0
    /\ state.tag = "Idle" /\ state.opt # <<>>
    /\ Rank(state, call[lock]) = 1
    /\ hist[Found.tid].by = call[lock].id
    /\ calls[call[lock].id].pre = 1..(call[lock].id - 1)
    /\ last_ret.call.id # call[lock].id
    /\ \E tid \in DOMAIN hist :
         /\ tid + 1 = Found.tid
         /\ hist[tid].fate = "discarded" /\ hist[tid].ok
         /\ hist[tid].kind = call[lock].op
         /\ hist[tid].to = call[lock].id
         /\ hist[tid].n > call[lock].len

\* C33: when one caller is in a write call and another in a flush call on
\* the same bridge, every caller polled again and again and the pool running
\* every closure, both calls come to an end (a Ready result, or a panic of
\* the poll): neither stays Pending for ever.
C33_WriteAndFlushBothReturn ==
    \A c, d \in Callers : \A i, j \in 1..MaxCalls :
        (/\ call[c].id = i /\ call[c].op = "Write"
         /\ call[d].id = j /\ call[d].op = "Flush")
           ~> (/\ i \in DOMAIN calls /\ calls[i].status # "live"
               /\ j \in DOMAIN calls /\ calls[j].status # "live")

\* C34: with one caller, polled after each completion, and a pool that runs
\* every closure, every write, flush, read and read_line call comes to
\* return Ready (unless the poll of the handle panics); a call never has
\* more than one closure dispatched, and one that has returned Ready had
\* exactly one, whose outcome is what it returned: every call finds the
\* bridge Idle with nothing recorded.
C34_SoloCallCompletes ==
    /\ [](/\ \A k \in DOMAIN calls :
               /\ Cardinality(DispatchedBy(k)) <= 1
               /\ calls[k].status = "done" =>
                     /\ Cardinality(DispatchedBy(k)) = 1
                     /\ \A tid \in DispatchedBy(k) :
                           hist[tid].fate = "returned" /\ hist[tid].to = k
          /\ (lock = 0 /\ panic = "none" /\ \A c \in Callers : call[c] = NoCall)
                => CleanIdle
          /\ panic \in {"none", "handle"})
    /\ \A k \in 1..MaxCalls :
          (k \in DOMAIN calls /\ calls[k].status = "live")
             ~> (k \in DOMAIN calls /\ (calls[k].status = "done" \/ panic = "handle"))

\* C34 happens: on the Stdin bridge the caller's calls, a read and a
\* read_line among them and one of them failed, have all returned, each
\* after one blocking call.
C34_Witness ==
    /\ kind = "in"
    /\ Len(calls) >= 2
    /\ \A k \in DOMAIN calls : calls[k].status = "done"
    /\ Len(hist) = Len(calls)
    /\ {hist[tid].kind : tid \in DOMAIN hist} = {"Read", "ReadLine"}
    /\ \E tid \in DOMAIN hist : ~hist[tid].ok
    /\ last_ret.res = "Ok"

\* The instances with a blocking write in flight: dispatched, not finished.
InFlightWrites == {i \in DOMAIN insts : \E t \in insts[i].tasks : ~t.done}

\* C38: every call of the constructor adds a bridge that is Idle(Some(Inner))
\* with an empty buffer and last_op = None, its mutex free, and touches no
\* other; every step of a poll or of a closure changes the State, the mutex
\* and the closures of one instance only; and an instance has at most one
\* blocking write in flight: what is serialized is the calls on one instance.
C38_SerializationPerInstance ==
    [][ /\ Len(insts') > Len(insts) =>
             /\ Len(insts') = Len(insts) + 1
             /\ insts'[Len(insts')] = NewStdout
             /\ insts'[Len(insts')].state = Idle(<<[buf |-> <<>>, line |-> <<>>, last_op |-> NoOp]>>)
             /\ \A i \in DOMAIN insts : insts'[i] = insts[i]
        /\ \A i, j \in DOMAIN insts :
             (i # j /\ insts'[i] # insts[i]) => insts'[j] = insts[j]
        /\ \A i \in DOMAIN insts' :
             /\ Cardinality({t \in insts'[i].tasks : ~t.done}) <= 1
             /\ insts'[i].state.tag = "Busy" <=> insts'[i].tasks # {}
      ]_vars

\* C38 happens: two instances each have a blocking write to the process's
\* standard output in flight, both mutexes held by users inside poll_write.
C38_Witness ==
    \E i, j \in DOMAIN insts :
        /\ i # j
        /\ {i, j} \subseteq InFlightWrites
        /\ insts[i].lock = 1 /\ insts[j].lock = 1
        /\ insts[i].tasks # insts[j].tasks

====
